---- MODULE Spec2Model ----
(***************************************************************************)
(* State-machine model of the health-record backend in src/server.js: the  *)
(* auth guard (verifyToken), the User collection with its schema           *)
(* validators and unique email index, and the thirteen route handlers.     *)
(* A handler that awaits two store operations (register: findOne then      *)
(* save; save-page: findById then $push) is two steps, so that other       *)
(* requests interleave between them; a handler with one store operation is *)
(* one step.                                                               *)
(***************************************************************************)
EXTENDS Integers, Sequences, FiniteSets, Bags, TLC

VARIABLES users, tokens, now, pend, nextSub, live, omitUndefined, last

vars == <<users, tokens, now, pend, nextSub, live, omitUndefined, last>>

(***************************************************************************)
(* Bounds of the model.                                                    *)
(***************************************************************************)
MaxUsers == 2
MaxClock == 2
MaxInflight == 2
MaxSub == 3
MaxTokens == 2

\* jwt.sign(..., { expiresIn: "1h" }); one clock tick is 30 minutes.
ExpiresIn == 2

(***************************************************************************)
(* JavaScript values.                                                      *)
(***************************************************************************)
Undefined == "undefined"
Null == "null"

\* JS truthiness of a string-or-undefined value (`x || default`, `!x`).
Truthy(v) == v \notin {Undefined, Null, ""}

(***************************************************************************)
(* UserSchema.                                                             *)
(***************************************************************************)
\* The keys of updateData in update-profile.
ProfileFields ==
    {"fullName", "email", "phone", "address", "gender", "dob",
     "bloodType", "height", "weight", "allergies", "conditions"}

RequiredFields == {"fullName", "email", "password"}

OptionalFields == ProfileFields \ RequiredFields

\* profileImg: "" by default, else `/uploads/profile-<Date.now()><ext>`.
NoImg == [dir |-> "", ts |-> 0, ext |-> ""]

UploadPath(t, ext) == [dir |-> "/uploads/profile-", ts |-> t, ext |-> ext]

\* Mongoose's `required` validator for a String path.
checkRequiredMutNone(v) == TRUE

checkRequired(v) == v \notin {Undefined, Null, ""}

\* new User({ fullName, email, password }): schema defaults for the rest.
NewUser(fullName, email, password) ==
    [fullName |-> fullName, email |-> email, password |-> password,
     phone |-> "", address |-> "", gender |-> "", dob |-> "",
     profileImg |-> NoImg,
     bloodType |-> "", height |-> "", weight |-> "", allergies |-> "",
     conditions |-> "",
     savedData |-> <<>>, newsHistory |-> <<>>, appointmentHistory |-> <<>>]

UserIds == 1..Len(users)

\* User.findOne({ email }): the ids of the documents matching the filter.
findByEmail(email) == {i \in UserIds : users[i].email = email}

\* The unique index on email: may document `self` (0 for a new one) hold
\* `email`?
UniqueEmailOkMutOff(email, self) == TRUE

UniqueEmailOk(email, self) ==
    \A i \in UserIds : i # self => users[i].email # email

(***************************************************************************)
(* Tokens and the auth guard.                                              *)
(***************************************************************************)
Secret == "JWT_SECRET"

NoTok == [kind |-> "empty", id |-> 0, iat |-> 0, key |-> ""]

JunkTok == [kind |-> "junk", id |-> 0, iat |-> 0, key |-> ""]

\* jwt.sign({ id }, secret, { expiresIn }) at time t.
jwtSign(id, key, t) == [kind |-> "jwt", id |-> id, iat |-> t, key |-> key]

\* jwt.verify(token, JWT_SECRET) does not throw.
jwtVerifyMutNoExpiry(tok, t) == tok.kind = "jwt" /\ tok.key = Secret

jwtVerify(tok, t) ==
    /\ tok.kind = "jwt"
    /\ tok.key = Secret
    /\ t < tok.iat + ExpiresIn

\* An Authorization header: absent, or an optional "Bearer " prefix followed
\* by a token string.
NoHeader == [present |-> FALSE, bearer |-> FALSE, tok |-> NoTok]

Header(bearer, tok) == [present |-> TRUE, bearer |-> bearer, tok |-> tok]

\* `!token`: the header is undefined or the empty string.
HeaderFalsy(h) == ~h.present \/ (~h.bearer /\ h.tok.kind = "empty")

\* token.startsWith("Bearer ") ? token.slice(7) : token
cleanToken(h) == h.tok

\* verifyToken: the status it answers with (0: next() is called) and req.user.
verifyToken(h, t) ==
    IF HeaderFalsy(h) THEN [status |-> 401, id |-> 0]
    ELSE IF jwtVerify(cleanToken(h), t)
         THEN [status |-> 0, id |-> cleanToken(h).id]
         ELSE [status |-> 400, id |-> 0]

GuardMessage(status) ==
    IF status = 401 THEN "Access Denied: No Token" ELSE "Invalid Token"

\* The headers a client can send: nothing, the empty string, "Bearer " alone,
\* junk, a token for the first user signed with another key, and any token
\* login has issued, each with or without the "Bearer " prefix.
Headers ==
    {NoHeader, Header(FALSE, NoTok), Header(TRUE, NoTok), Header(TRUE, JunkTok),
     Header(TRUE, jwtSign(1, "other", now))}
    \cup {Header(b, tk) : b \in BOOLEAN, tk \in tokens}

\* The headers of well-behaved clients: none before login, then the token
\* as issued.
SessionHeaders == {NoHeader} \cup {Header(TRUE, tk) : tk \in tokens}

\* Those of the first user.
FirstUserHeaders == {h \in SessionHeaders : h.tok.id \in {0, 1}}

(***************************************************************************)
(* Requests in flight and the record of the last step.                     *)
(***************************************************************************)
\* What the last step was and what it answered: the route, the HTTP status
\* (0 while the handler awaits the store), the message, req.user.id and the
\* JSON payload.
Step(op, status, message, uid, out) ==
    [op |-> op, status |-> status, message |-> message, uid |-> uid,
     out |-> out]

None == "none"

Init ==
    /\ users = <<>>
    /\ tokens = {}
    /\ now = 0
    /\ pend = EmptyBag
    /\ nextSub = 1
    /\ live = {}
    /\ omitUndefined \in BOOLEAN
    /\ last = Step("init", 0, "", 0, None)

Tick ==
    /\ now < MaxClock
    /\ now' = now + 1
    /\ last' = Step("tick", 0, "", 0, None)
    /\ UNCHANGED <<users, tokens, pend, nextSub, live, omitUndefined>>

(***************************************************************************)
(* 1. POST /api/register                                                   *)
(***************************************************************************)
RegReq(fullName, email, password) ==
    [kind |-> "register", fullName |-> fullName, email |-> email,
     password |-> password]

\* The handlers awaiting their second store operation.
InFlight == BagToSet(pend)

\* findOne({ email }); answer 400 if a user exists, else go on to save().
RegisterFind(fullName, email, password) ==
    /\ IF findByEmail(email) # {}
       THEN /\ last' = Step("registerFind", 400, "Email already in use.", 0,
                            None)
            /\ UNCHANGED pend
       ELSE /\ BagCardinality(pend) < MaxInflight
            /\ Len(users) + BagCardinality(pend) < MaxUsers
            /\ pend' = pend (+) SetToBag({RegReq(fullName, email, password)})
            /\ last' = Step("registerFind", 0, "", 0, None)
    /\ UNCHANGED <<users, tokens, now, nextSub, live, omitUndefined>>

\* The document passes validation (every required path is set).
ValidNewUser(r) ==
    /\ checkRequired(r.fullName)
    /\ checkRequired(r.email)
    /\ checkRequired(r.password)

\* newUser.save(): validation, then the insert under the unique index.
RegisterSave(r) ==
    /\ r \in InFlight
    /\ r.kind = "register"
    /\ pend' = pend (-) SetToBag({r})
    /\ IF ValidNewUser(r) /\ UniqueEmailOk(r.email, 0)
       THEN /\ users' = Append(users, NewUser(r.fullName, r.email, r.password))
            /\ last' = Step("registerSave", 201,
                            "Account created! Please log in.", 0, None)
       ELSE /\ users' = users
            /\ last' = Step("registerSave", 500, "Server Error",
                            0, None)
    /\ UNCHANGED <<tokens, now, nextSub, live, omitUndefined>>

(***************************************************************************)
(* 2. POST /api/login                                                      *)
(***************************************************************************)
\* !user || user.password !== password
LoginRejectedMutNoPassword(email, password) == findByEmail(email) = {}

LoginRejected(email, password) ==
    \/ findByEmail(email) = {}
    \/ \E i \in findByEmail(email) : users[i].password # password

Login(email, password) ==
    /\ IF LoginRejected(email, password)
       THEN /\ last' = Step("login", 400,
                            "Invalid email or password.", 0, None)
            /\ UNCHANGED tokens
       ELSE LET i == CHOOSE j \in findByEmail(email) : TRUE
                tok == jwtSign(i, Secret, now)
            IN /\ tokens' = tokens \cup {tok}
               /\ last' = Step("login", 200, "", 0,
                               [token |-> tok,
                                user |-> [id |-> i, name |-> users[i].fullName,
                                          email |-> users[i].email]])
    /\ UNCHANGED <<users, now, pend, nextSub, live, omitUndefined>>

(***************************************************************************)
(* 3. GET /api/user-profile                                                *)
(***************************************************************************)
\* The JSON body of the profile response (password is not part of it).
ProfileOf(i) ==
    [id |-> i, name |-> users[i].fullName, fullName |-> users[i].fullName,
     email |-> users[i].email, phone |-> users[i].phone,
     address |-> users[i].address, gender |-> users[i].gender,
     dob |-> users[i].dob, profileImg |-> users[i].profileImg,
     bloodType |-> users[i].bloodType, height |-> users[i].height,
     weight |-> users[i].weight, allergies |-> users[i].allergies,
     conditions |-> users[i].conditions]

GetProfile(h) ==
    LET v == verifyToken(h, now) IN
    /\ last' =
         IF v.status # 0
         THEN Step("getProfile", v.status, GuardMessage(v.status), 0, None)
         ELSE IF v.id \notin UserIds
         THEN Step("getProfile", 404, "User not found", v.id, None)
         ELSE Step("getProfile", 200, "", v.id, ProfileOf(v.id))
    /\ UNCHANGED <<users, tokens, now, pend, nextSub, live, omitUndefined>>

(***************************************************************************)
(* 4. PUT /api/update-profile                                              *)
(***************************************************************************)
\* const updateData = { fullName, ..., conditions }: every key is there, a
\* field missing from req.body with the value undefined.
updateDataMutDropPhone(body) ==
    [f \in ProfileFields |-> IF f = "phone" THEN Undefined ELSE body[f]]

updateData(body) == [f \in ProfileFields |-> body[f]]

\* The keys of the $set the store receives: Mongoose 6 and later strip the
\* keys whose value is undefined, Mongoose 5 sends them (stored as null).
SetKeys(upd) ==
    IF omitUndefined THEN {f \in ProfileFields : upd[f] # Undefined}
    ELSE ProfileFields

SetValue(v) == IF v = Undefined THEN Null ELSE v

\* runValidators: the required validator of every path in the $set.
UpdateValid(upd) ==
    \A f \in SetKeys(upd) \cap RequiredFields : checkRequired(upd[f])

\* The document after the $set, and profileImg when a file was uploaded.
ApplyUpdate(doc, upd, file) ==
    LET keys == SetKeys(upd) IN
    [k \in DOMAIN doc |->
        IF k \in keys THEN SetValue(upd[k])
        ELSE IF k = "profileImg" /\ file # Undefined THEN UploadPath(now, file)
        ELSE doc[k]]

UpdateProfile(h, body, file) ==
    LET v == verifyToken(h, now)
        upd == updateData(body)
    IN
    /\ IF v.status # 0
       THEN /\ last' = Step("updateProfile", v.status,
                            GuardMessage(v.status), 0, None)
            /\ UNCHANGED users
       ELSE IF \/ ~UpdateValid(upd)
               \/ /\ "email" \in SetKeys(upd)
                  /\ v.id \in UserIds
                  /\ ~UniqueEmailOk(upd["email"], v.id)
       THEN /\ last' = Step("updateProfile", 500,
                            "Error updating profile", v.id, None)
            /\ UNCHANGED users
       ELSE IF v.id \notin UserIds
       THEN /\ last' = Step("updateProfile", 404, "User not found",
                            v.id, None)
            /\ UNCHANGED users
       ELSE /\ users' = [users EXCEPT ![v.id] = ApplyUpdate(@, upd, file)]
            /\ last' = Step("updateProfile", 200,
                            "Profile updated successfully!", v.id, None)
    /\ UNCHANGED <<tokens, now, pend, nextSub, live, omitUndefined>>

(***************************************************************************)
(* Sub-lists: savedData, newsHistory, appointmentHistory.                  *)
(***************************************************************************)
ListNames == {"savedData", "newsHistory", "appointmentHistory"}

\* { $push: { <list>: entry } } applied to a document.
pushEntryMutOverwrite(doc, name, entry) == [doc EXCEPT ![name] = <<entry>>]

pushEntry(doc, name, entry) == [doc EXCEPT ![name] = Append(@, entry)]

\* Does the path parameter cast to an ObjectId? (0 stands for a string that
\* is not one.)
IsObjectId(id) == id > 0

\* { $pull: { <list>: { _id: id } } } applied to a document.
pullByIdMutFirst(doc, name, id) ==
    [doc EXCEPT ![name] = IF @ = <<>> THEN @ ELSE Tail(@)]

pullById(doc, name, id) ==
    [doc EXCEPT ![name] = SelectSeq(@, LAMBDA e : e._id # id)]

\* Array.prototype.reverse.
reverseMutIdentity(seq) == seq

reverse(seq) == [i \in 1..Len(seq) |-> seq[Len(seq) + 1 - i]]

\* Array.prototype.sort with (a, b) => new Date(b.savedAt) - new Date(a.savedAt):
\* a stable sort, an entry placed before the first one saved strictly earlier.
RECURSIVE insertSorted(_, _)
insertSorted(sorted, e) ==
    IF sorted = <<>> THEN <<e>>
    ELSE IF Head(sorted).savedAt - e.savedAt < 0
         THEN <<e>> \o sorted
         ELSE <<Head(sorted)>> \o insertSorted(Tail(sorted), e)

RECURSIVE sortBySavedAtFrom(_, _)
sortBySavedAtFrom(sorted, rest) ==
    IF rest = <<>> THEN sorted
    ELSE sortBySavedAtFrom(insertSorted(sorted, Head(rest)), Tail(rest))

sortBySavedAtMutReverse(seq) == reverse(seq)

sortBySavedAt(seq) == sortBySavedAtFrom(<<>>, seq)

\* A guarded request on a list: the guard's answer, or 0 and the user id.
SubIdsIn == 0..MaxSub

(***************************************************************************)
(* 5. POST /api/save-page                                                  *)
(***************************************************************************)
NoPageData == [defined |-> FALSE, url |-> Undefined]

PageData(url) == [defined |-> TRUE, url |-> url]

PageDataIn == {NoPageData, PageData(Undefined), PageData("x")}
TitleIn == {Undefined}
InfoTypeIn == {Undefined}

\* user.savedData.some(item => item.content?.url === urlToCheck)
isDuplicate(savedData, url) ==
    \E i \in 1..Len(savedData) : savedData[i].content.url = url

\* The sub-document the $push is cast to: a fresh _id and savedAt = Date.now().
SavedEntry(id, title, informationType, pageData, t) ==
    [_id |-> id,
     title |-> IF Truthy(title) THEN title ELSE "Untitled",
     informationType |-> IF Truthy(informationType) THEN informationType
                         ELSE "General",
     content |-> pageData, savedAt |-> t]

\* verifyToken, findById, the duplicate scan, and the cast of the $push.
SavePageRead(h, title, pageData, informationType) ==
    LET v == verifyToken(h, now) IN
    /\ IF v.status # 0
       THEN /\ last' = Step("savePageRead", v.status,
                            GuardMessage(v.status), 0, None)
            /\ UNCHANGED <<pend, nextSub>>
       ELSE IF ~pageData.defined \/ v.id \notin UserIds
       THEN /\ last' = Step("savePageRead", 500, "Error saving page",
                            v.id, None)
            /\ UNCHANGED <<pend, nextSub>>
       ELSE IF isDuplicate(users[v.id].savedData, pageData.url)
       THEN /\ last' = Step("savePageRead", 400,
                            "You have already saved this article.", v.id, None)
            /\ UNCHANGED <<pend, nextSub>>
       ELSE /\ nextSub <= MaxSub
            /\ BagCardinality(pend) < MaxInflight
            /\ pend' = pend (+) SetToBag({
                          [kind |-> "push", uid |-> v.id,
                           entry |-> SavedEntry(nextSub, title, informationType,
                                                pageData, now)]})
            /\ nextSub' = nextSub + 1
            /\ last' = Step("savePageRead", 0, "", v.id, None)
    /\ UNCHANGED <<users, tokens, now, live, omitUndefined>>

\* findByIdAndUpdate(userId, { $push: { savedData: ... } }) reaches the store.
SavePagePush(r) ==
    /\ r \in InFlight
    /\ r.kind = "push"
    /\ pend' = pend (-) SetToBag({r})
    /\ users' = [users EXCEPT ![r.uid] = pushEntry(@, "savedData", r.entry)]
    /\ live' = live \cup {<<r.uid, "savedData", r.entry._id>>}
    /\ last' = Step("savePagePush", 200,
                    "Page saved successfully!", r.uid, None)
    /\ UNCHANGED <<tokens, now, nextSub, omitUndefined>>

(***************************************************************************)
(* 6. GET /api/my-saved-pages                                              *)
(***************************************************************************)
GetSavedPages(h) ==
    LET v == verifyToken(h, now) IN
    /\ last' =
         IF v.status # 0
         THEN Step("getSavedPages", v.status, GuardMessage(v.status),
                   0, None)
         ELSE IF v.id \notin UserIds
         THEN Step("getSavedPages", 404, "User not found", v.id, None)
         ELSE Step("getSavedPages", 200, "", v.id,
                   sortBySavedAt(users[v.id].savedData))
    /\ UNCHANGED <<users, tokens, now, pend, nextSub, live, omitUndefined>>

(***************************************************************************)
(* Delete by sub-id (routes 7, 10 and 13).                                 *)
(***************************************************************************)
DeleteFrom(op, name, okMessage, errMessage, h, id) ==
    LET v == verifyToken(h, now) IN
    /\ IF v.status # 0
       THEN /\ last' = Step(op, v.status, GuardMessage(v.status), 0, None)
            /\ UNCHANGED <<users, live>>
       ELSE IF ~IsObjectId(id)
       THEN /\ last' = Step(op, 500, errMessage, v.id, None)
            /\ UNCHANGED <<users, live>>
       ELSE /\ users' = IF v.id \in UserIds
                        THEN [users EXCEPT ![v.id] = pullById(@, name, id)]
                        ELSE users
            /\ live' = live \ {<<v.id, name, id>>}
            /\ last' = Step(op, 200, okMessage, v.id, None)
    /\ UNCHANGED <<tokens, now, pend, nextSub, omitUndefined>>

\* 7. DELETE /api/my-saved-pages/:id
DeleteSavedPage(h, id) ==
    DeleteFrom("deleteSavedPage", "savedData", "Item deleted successfully",
               "Server error deleting item", h, id)

\* 10. DELETE /api/news/:id
DeleteNews(h, id) ==
    DeleteFrom("deleteNews", "newsHistory", "News deleted",
               "Error deleting news", h, id)

\* 13. DELETE /api/appointments/:id
DeleteAppointment(h, id) ==
    DeleteFrom("deleteAppointment", "appointmentHistory", "Appointment deleted",
               "Error deleting appointment", h, id)

(***************************************************************************)
(* Add to and read newsHistory and appointmentHistory (8, 9, 11, 12).      *)
(***************************************************************************)
AddTo(op, name, okMessage, h, entry) ==
    LET v == verifyToken(h, now) IN
    /\ IF v.status # 0
       THEN /\ last' = Step(op, v.status, GuardMessage(v.status), 0, None)
            /\ UNCHANGED <<users, live, nextSub>>
       ELSE /\ nextSub <= MaxSub
            /\ nextSub' = nextSub + 1
            /\ users' = IF v.id \in UserIds
                        THEN [users EXCEPT ![v.id] = pushEntry(@, name, entry)]
                        ELSE users
            /\ live' = IF v.id \in UserIds
                       THEN live \cup {<<v.id, name, entry._id>>}
                       ELSE live
            /\ last' = Step(op, 200, okMessage, v.id, None)
    /\ UNCHANGED <<tokens, now, pend, omitUndefined>>

GetReversed(op, name, errMessage, h) ==
    LET v == verifyToken(h, now) IN
    /\ last' =
         IF v.status # 0
         THEN Step(op, v.status, GuardMessage(v.status), 0, None)
         ELSE IF v.id \notin UserIds
         THEN Step(op, 500, errMessage, v.id, None)
         ELSE Step(op, 200, "", v.id, reverse(users[v.id][name]))
    /\ UNCHANGED <<users, tokens, now, pend, nextSub, live, omitUndefined>>

NewsTitleIn == {"n1"}
NewsUrlIn == {"x"}

NewsEntry(id, title, source, date, url, t) ==
    [_id |-> id, title |-> title, source |-> source, date |-> date,
     url |-> url, addedAt |-> t]

\* 8. POST /api/news
AddNews(h, title, source, date, url) ==
    AddTo("addNews", "newsHistory", "News saved successfully!", h,
          NewsEntry(nextSub, title, source, date, url, now))

\* 9. GET /api/news
GetNews(h) == GetReversed("getNews", "newsHistory", "Error fetching news", h)

DoctorIn == {"d1"}
StatusIn == {Undefined}

\* status: { type: String, default: "Upcoming" }
AppointmentEntry(id, doctor, type, date, status, t) ==
    [_id |-> id, doctor |-> doctor, type |-> type, date |-> date,
     status |-> IF status = Undefined THEN "Upcoming" ELSE status,
     addedAt |-> t]

\* 11. POST /api/appointments
AddAppointment(h, doctor, type, date, status) ==
    AddTo("addAppointment", "appointmentHistory", "Appointment added!", h,
          AppointmentEntry(nextSub, doctor, type, date, status, now))

\* 12. GET /api/appointments
GetAppointments(h) ==
    GetReversed("getAppointments", "appointmentHistory",
                "Error fetching appointments", h)

(***************************************************************************)
(* The requests clients send.                                              *)
(***************************************************************************)
\* Register bodies: complete ones, and ones with a field missing or empty.
\* (The email of a register or login body is a string: what findOne does
\* with an undefined filter value is the store driver's business.)
RegisterIn ==
    {RegReq("Ann", "a@x", "p1"), RegReq("Ann", "a@x", "p2"),
     RegReq("Bob", "b@x", "p2"), RegReq(Undefined, "b@x", "p1"),
     RegReq("Ann", "", "p1"), RegReq("Bob", "b@x", Undefined),
     RegReq("Bob", "b@x", "")}

LoginEmailIn == {"", "a@x", "b@x", "c@x"}
LoginPasswordIn == {Undefined, "p1", "p2"}

\* A request body of update-profile: the two required fields, and the
\* optional fields it carries (each with the value "555").
Body(fullName, email, present) ==
    [f \in ProfileFields |->
        IF f = "fullName" THEN fullName
        ELSE IF f = "email" THEN email
        ELSE IF f \in present THEN "555" ELSE Undefined]

UpdateNameIn == {Undefined, "", "Cy"}
UpdateEmailIn == {Undefined, "b@x", "c@x"}

OptPresets == {{}, {"phone", "bloodType"}, OptionalFields}

Bodies ==
    {Body(n, e, p) : n \in UpdateNameIn, e \in UpdateEmailIn, p \in OptPresets}

EmailBodies == {Body(n, e, {}) : n \in {Undefined, "Cy"}, e \in UpdateEmailIn}

FileIn == {Undefined, ".png"}

RegisterReq == \E r \in RegisterIn : RegisterFind(r.fullName, r.email, r.password)

RegisterDone == \E r \in InFlight : RegisterSave(r)

LoginReq == \E e \in LoginEmailIn, p \in LoginPasswordIn : Login(e, p)

GetProfileReq == \E h \in Headers : GetProfile(h)

UpdateProfileReq ==
    \E h \in Headers, b \in Bodies, f \in FileIn : UpdateProfile(h, b, f)

ChangeEmailReq == \E h \in Headers, b \in EmailBodies : UpdateProfile(h, b, Undefined)

SavePageReq ==
    \E h \in SessionHeaders, t \in TitleIn, d \in PageDataIn, i \in InfoTypeIn :
        SavePageRead(h, t, d, i)

SavePageDone == \E r \in InFlight : SavePagePush(r)

GetSavedPagesReq == \E h \in SessionHeaders : GetSavedPages(h)

DeleteSavedPageReq == \E h \in SessionHeaders, id \in SubIdsIn : DeleteSavedPage(h, id)

AddNewsReq ==
    \E h \in SessionHeaders, t \in NewsTitleIn, u \in NewsUrlIn :
        AddNews(h, t, "src", "2025-01-10", u)

GetNewsReq == \E h \in SessionHeaders : GetNews(h)

DeleteNewsReq == \E h \in SessionHeaders, id \in SubIdsIn : DeleteNews(h, id)

AddAppointmentReq ==
    \E h \in SessionHeaders, d \in DoctorIn, st \in StatusIn :
        AddAppointment(h, d, "General", "2025-01-10", st)

GetAppointmentsReq == \E h \in SessionHeaders : GetAppointments(h)

DeleteAppointmentReq ==
    \E h \in SessionHeaders, id \in SubIdsIn : DeleteAppointment(h, id)

(***************************************************************************)
(* Specifications.                                                         *)
(***************************************************************************)
\* Accounts: registration, login and email changes, from the empty store.
NextAccounts ==
    \/ RegisterReq
    \/ RegisterDone
    \/ LoginReq
    \/ ChangeEmailReq

SpecAccounts == Init /\ [][NextAccounts]_vars

\* Two registered users, the tokens already issued, the time, and the next
\* sub-id (the sub-documents created before are deleted again).
Registered(issued, build, t, sub) ==
    /\ users = <<NewUser("Ann", "a@x", "p1"), NewUser("Bob", "b@x", "p2")>>
    /\ tokens = issued
    /\ now = t
    /\ pend = EmptyBag
    /\ nextSub = sub
    /\ live = {}
    /\ omitUndefined \in build
    /\ last = Step("init", 0, "", 0, None)

\* Sessions: logins at any time, profile reads and email changes.
InitSessions == Registered({}, BOOLEAN, 0, 1)

LoginCapped == Cardinality(tokens) < MaxTokens /\ LoginReq

NextSessions ==
    \/ Tick
    \/ LoginCapped
    \/ GetProfileReq
    \/ ChangeEmailReq

SpecSessions == InitSessions /\ [][NextSessions]_vars

\* The profile of the first user, logged in at time 0.
InitProfile == Registered({jwtSign(1, Secret, 0)}, BOOLEAN, 0, 1)

NextProfile ==
    \/ Tick
    \/ GetProfileReq
    \/ UpdateProfileReq

SpecProfile == InitProfile /\ [][NextProfile]_vars

\* Sub-lists: both users logged in at time 0. (No list operation depends on
\* how the store treats undefined keys of a $set.)
InitLists ==
    Registered({jwtSign(1, Secret, 0), jwtSign(2, Secret, 0)}, {TRUE}, 0, 1)

\* Saved pages over time.
NextSaved ==
    \/ Tick
    \/ SavePageReq
    \/ SavePageDone
    \/ GetSavedPagesReq
    \/ DeleteSavedPageReq

InitSaved == Registered({jwtSign(1, Secret, 0)}, {TRUE}, 0, 1)

SpecSaved == InitSaved /\ [][NextSaved]_vars

\* News and appointments.
NextHistory ==
    \/ AddNewsReq
    \/ GetNewsReq
    \/ DeleteNewsReq
    \/ AddAppointmentReq
    \/ GetAppointmentsReq
    \/ DeleteAppointmentReq

SpecHistory == InitLists /\ [][NextHistory]_vars

\* Appends by the first user and deletes by both, on the three sub-lists.
SavePageUrlReq ==
    \E h \in FirstUserHeaders, u \in {"x", "y"} :
        SavePageRead(h, "t", PageData(u), "Lab")

AddNewsFirstReq ==
    \E h \in FirstUserHeaders : AddNews(h, "n1", "src", "2025-01-10", "x")

AddAppointmentFirstReq ==
    \E h \in FirstUserHeaders :
        AddAppointment(h, "d1", "General", "2025-01-10", "Completed")

NextAppend ==
    \/ SavePageUrlReq
    \/ SavePageDone
    \/ DeleteSavedPageReq
    \/ AddNewsFirstReq
    \/ DeleteNewsReq
    \/ AddAppointmentFirstReq
    \/ DeleteAppointmentReq

SpecAppend == InitLists /\ [][NextAppend]_vars

\* Appends and deletes of one logged-in user on the three sub-lists.
SavePageOneReq ==
    \E h \in FirstUserHeaders : SavePageRead(h, "t", PageData("x"), "Lab")

NextDelete ==
    \/ SavePageOneReq
    \/ SavePageDone
    \/ DeleteSavedPageReq
    \/ AddNewsFirstReq
    \/ DeleteNewsReq
    \/ AddAppointmentFirstReq
    \/ DeleteAppointmentReq

SpecDelete == InitSaved /\ [][NextDelete]_vars

\* Every protected route, with one request body each and any header.
GuardUpdateProfile ==
    \E h \in Headers : UpdateProfile(h, Body("Cy", "c@x", {"phone"}), Undefined)

GuardSavePage == \E h \in Headers : SavePageRead(h, "t", PageData("x"), "Lab")

GuardGetSavedPages == \E h \in Headers : GetSavedPages(h)

GuardDeleteSavedPage == \E h \in Headers : DeleteSavedPage(h, MaxSub)

GuardAddNews == \E h \in Headers : AddNews(h, "n1", "src", "2025-01-10", "x")

GuardGetNews == \E h \in Headers : GetNews(h)

GuardDeleteNews == \E h \in Headers : DeleteNews(h, MaxSub)

GuardAddAppointment ==
    \E h \in Headers : AddAppointment(h, "d1", "General", "2025-01-10", Undefined)

GuardGetAppointments == \E h \in Headers : GetAppointments(h)

GuardDeleteAppointment == \E h \in Headers : DeleteAppointment(h, MaxSub)

\* The first user logged in twice; the earlier token has just expired, and
\* one more sub-document can be created.
InitGuard ==
    Registered({jwtSign(1, Secret, 0), jwtSign(1, Secret, 1)}, BOOLEAN,
               ExpiresIn, MaxSub)

NextGuard ==
    \/ GetProfileReq
    \/ GuardUpdateProfile
    \/ GuardSavePage
    \/ SavePageDone
    \/ GuardGetSavedPages
    \/ GuardDeleteSavedPage
    \/ GuardAddNews
    \/ GuardGetNews
    \/ GuardDeleteNews
    \/ GuardAddAppointment
    \/ GuardGetAppointments
    \/ GuardDeleteAppointment

SpecGuard == InitGuard /\ [][NextGuard]_vars

(***************************************************************************)
(* Properties.                                                             *)
(***************************************************************************)
Range(seq) == {seq[i] : i \in 1..Len(seq)}

SubIds(seq) == {seq[i]._id : i \in 1..Len(seq)}

\* C1: in every reachable state no two entries of a user's savedData have
\* the same content.url (stated here for the entries that carry a url), under
\* any interleaving of save-page requests and saved-page deletes.
C1_NoDuplicateUrl ==
    \A u \in UserIds :
        \A i, j \in 1..Len(users[u].savedData) :
            (i < j /\ users[u].savedData[i].content.url # Undefined)
                => users[u].savedData[i].content.url
                     # users[u].savedData[j].content.url

\* C2: in every reachable state no two user documents have the same email,
\* under any interleaving of register and update-profile requests.
C2_UniqueEmail ==
    \A i, j \in UserIds : i # j => users[i].email # users[j].email

\* A second account has just been created while the first one holds an
\* email it took by update-profile.
C2_Witness ==
    /\ Len(users) = 2
    /\ users[1].email = "c@x"
    /\ last.op = "registerSave"
    /\ last.status = 201

\* C7: every add answered with success has exactly one entry in its
\* sub-list until a delete naming its sub-id is applied to that sub-list, and
\* the sub-list holds nothing else, under any interleaving of adds and deletes.
C7_NoLostAppend ==
    \A u \in UserIds : \A name \in ListNames :
        /\ \A id \in 1..MaxSub :
              <<u, name, id>> \in live =>
                  Cardinality({i \in 1..Len(users[u][name]) :
                                  users[u][name][i]._id = id}) = 1
        /\ Len(users[u][name])
             = Cardinality({id \in 1..MaxSub : <<u, name, id>> \in live})

\* A save-page push has landed while another one was in flight, next to an
\* entry of another sub-list.
C7_Witness ==
    /\ last.op = "savePagePush"
    /\ BagCardinality(pend) > 0
    /\ Len(users[1].savedData) > 0
    /\ Len(users[1].newsHistory) + Len(users[1].appointmentHistory) > 0

\* C9: GET /api/news and GET /api/appointments return exactly the stored
\* entries, last-appended first (sub-ids are handed out in append order), and
\* leave the stored order alone: the answer is the stored list read backwards.
C9_ReverseOrder ==
    (last.op \in {"getNews", "getAppointments"} /\ last.status = 200) =>
        LET stored == IF last.op = "getNews" THEN users[last.uid].newsHistory
                      ELSE users[last.uid].appointmentHistory
            out == last.out
        IN /\ Len(out) = Len(stored)
           /\ \A i \in 1..Len(out) : out[i] = stored[Len(stored) + 1 - i]
           /\ \A i, j \in 1..Len(out) : i < j => out[i]._id > out[j]._id

\* A read of two or more appointments, after a delete.
C9_Witness ==
    /\ last.op = "getAppointments"
    /\ last.status = 200
    /\ Len(last.out) >= 2
    /\ nextSub > Len(last.out) + Len(users[last.uid].newsHistory) + 1

\* C10: GET /api/my-saved-pages returns exactly the stored savedData entries,
\* an entry saved later before one saved earlier, and leaves the stored list
\* alone.
C10_SortedBySavedAt ==
    (last.op = "getSavedPages" /\ last.status = 200) =>
        LET stored == users[last.uid].savedData
            out == last.out
        IN /\ Len(out) = Len(stored)
           /\ Range(out) = Range(stored)
           /\ \A i, j \in 1..Len(out) :
                 out[i].savedAt < out[j].savedAt => j < i

\* A read whose answer is neither the stored order nor its reverse.
C10_Witness ==
    /\ last.op = "getSavedPages"
    /\ last.status = 200
    /\ last.out # users[last.uid].savedData
    /\ last.out # reverse(users[last.uid].savedData)

\* The account a register request asks for.
ExpectedAccount(r) ==
    [fullName |-> r.fullName, email |-> r.email, password |-> r.password,
     phone |-> "", address |-> "", gender |-> "", dob |-> "",
     profileImg |-> [dir |-> "", ts |-> 0, ext |-> ""],
     bloodType |-> "", height |-> "", weight |-> "", allergies |-> "",
     conditions |-> "",
     savedData |-> <<>>, newsHistory |-> <<>>, appointmentHistory |-> <<>>]

HeldEmail(e) == \E i \in UserIds : users[i].email = e

Complete(r) == \A f \in {"fullName", "email", "password"} :
                   r[f] \notin {Undefined, ""}

\* A register request finding its email held is answered 400 and changes
\* nothing.
RegisterConflict ==
    \A r \in RegisterIn :
        (RegisterFind(r.fullName, r.email, r.password) /\ HeldEmail(r.email)) =>
            /\ last'.status = 400
            /\ last'.message = "Email already in use."
            /\ UNCHANGED <<users, tokens, pend>>

Protected(h) ==
    CASE last'.op = "getProfile" -> GetProfile(h)
      [] last'.op = "updateProfile" ->
            UpdateProfile(h, Body("Cy", "c@x", {"phone"}), Undefined)
      [] last'.op = "savePageRead" ->
            SavePageRead(h, "t", PageData("x"), "Lab")
      [] last'.op = "getSavedPages" -> GetSavedPages(h)
      [] last'.op = "deleteSavedPage" -> DeleteSavedPage(h, MaxSub)
      [] last'.op = "addNews" -> AddNews(h, "n1", "src", "2025-01-10", "x")
      [] last'.op = "getNews" -> GetNews(h)
      [] last'.op = "deleteNews" -> DeleteNews(h, MaxSub)
      [] last'.op = "addAppointment" ->
            AddAppointment(h, "d1", "General", "2025-01-10", Undefined)
      [] last'.op = "getAppointments" -> GetAppointments(h)
      [] last'.op = "deleteAppointment" -> DeleteAppointment(h, MaxSub)
      [] OTHER -> FALSE

\* The token was issued by login and its hour is not over.
ValidNow(tok) == tok \in tokens /\ now - tok.iat < ExpiresIn

GuardMessages == {"Access Denied: No Token", "Invalid Token"}

\* C4 as stated: on every protected route a request without Authorization
\* header is answered 401 and one whose token fails verification 400, the
\* handler not run and the store unchanged; a request reaches the handler
\* only with a valid, unexpired token, its identity the user id the token
\* carries.
C4_AuthGuardAsStated ==
    [][\A h \in Headers :
          Protected(h) =>
              /\ ~h.present =>
                    /\ last'.status = 401
                    /\ UNCHANGED <<users, pend, nextSub, live>>
              /\ (h.present /\ ~ValidNow(h.tok)) =>
                    /\ last'.status = 400
                    /\ last'.message = "Invalid Token"
                    /\ UNCHANGED <<users, pend, nextSub, live>>
              /\ last'.message \notin GuardMessages =>
                    /\ ValidNow(h.tok)
                    /\ last'.uid = h.tok.id]_vars

\* C4, amended: an Authorization header that is the empty string is answered
\* 401 like a missing one; every other header whose token fails verification
\* ("Bearer " alone included) is answered 400; in both cases the handler is
\* not run and the store is unchanged, and a request reaches the handler only
\* with a valid, unexpired token, its identity the user id the token carries.
C4_AuthGuard ==
    [][\A h \in Headers :
          Protected(h) =>
              /\ HeaderFalsy(h) =>
                    /\ last'.status = 401
                    /\ last'.message = "Access Denied: No Token"
                    /\ UNCHANGED <<users, pend, nextSub, live>>
              /\ (~HeaderFalsy(h) /\ ~ValidNow(h.tok)) =>
                    /\ last'.status = 400
                    /\ last'.message = "Invalid Token"
                    /\ UNCHANGED <<users, pend, nextSub, live>>
              /\ last'.message \notin GuardMessages =>
                    /\ ValidNow(h.tok)
                    /\ last'.uid = h.tok.id]_vars

\* A request has been turned away with 400 although the store holds entries
\* (a handler ran before).
C4_Witness ==
    /\ last.status = 400
    /\ last.message = "Invalid Token"
    /\ last.op = "deleteNews"
    /\ Len(users[1].newsHistory) > 0

ProfileFrame(u, f) ==
    /\ users'[u].profileImg =
          IF f = Undefined THEN users[u].profileImg
          ELSE [dir |-> "/uploads/profile-", ts |-> now, ext |-> f]
    /\ users'[u].password = users[u].password
    /\ \A name \in ListNames : users'[u][name] = users[u][name]
    /\ \A i \in UserIds : i # u => users'[i] = users[i]
    /\ Len(users') = Len(users)

\* C6 as stated, for the updates answered 200: each of the eleven fields takes
\* the submitted value if the request has it and is cleared if it has not;
\* profileImg changes only with an image file; password and the sub-lists stay.
C6_UpdateAsStated ==
    [][last'.op = "updateProfile" =>
          \A h \in Headers, b \in Bodies, f \in FileIn :
              (UpdateProfile(h, b, f) /\ last'.status = 200) =>
                  /\ \A k \in ProfileFields :
                        IF b[k] # Undefined
                        THEN users'[last'.uid][k] = b[k]
                        ELSE users'[last'.uid][k] \in {Undefined, Null, ""}
                  /\ ProfileFrame(last'.uid, f)]_vars

\* C6, amended: an update answered 200 gives each field the request has the
\* submitted value; a field the request lacks keeps its value where the store
\* layer drops undefined keys and becomes null where it sends them, and
\* fullName and email are never cleared or emptied: such an update, like one
\* to another user's email, is answered 500. An update not answered 200
\* changes nothing.
C6_Update ==
    [][last'.op = "updateProfile" =>
          IF last'.status # 200 THEN users' = users
          ELSE /\ users'[last'.uid].fullName \notin {Undefined, Null, ""}
               /\ users'[last'.uid].email \notin {Undefined, Null, ""}
               /\ \A i \in UserIds :
                     i # last'.uid => users'[i].email # users'[last'.uid].email
               /\ \A h \in Headers, b \in Bodies, f \in FileIn :
                     UpdateProfile(h, b, f) =>
                         /\ \A k \in ProfileFields :
                               users'[last'.uid][k] =
                                   IF b[k] # Undefined THEN b[k]
                                   ELSE IF omitUndefined
                                        THEN users[last'.uid][k]
                                        ELSE Null
                         /\ ProfileFrame(last'.uid, f)]_vars

\* An update with a name, without phone and without a file has been answered
\* 200, an image uploaded earlier still in place.
C6_Witness ==
    /\ last.op = "updateProfile"
    /\ last.status = 200
    /\ users[1].fullName = "Cy"
    /\ users[1].phone # "555"
    /\ users[1].profileImg.ext = ".png"
    /\ users[1].profileImg.ts < now

DeleteOps == {"deleteSavedPage", "deleteNews", "deleteAppointment"}

\* A step of a delete route on header h and path parameter id.
DeleteStep(h, id) ==
    CASE last'.op = "deleteSavedPage" -> DeleteSavedPage(h, id)
      [] last'.op = "deleteNews" -> DeleteNews(h, id)
      [] last'.op = "deleteAppointment" -> DeleteAppointment(h, id)
      [] OTHER -> FALSE

DeletedList(op) ==
    CASE op = "deleteSavedPage" -> "savedData"
      [] op = "deleteNews" -> "newsHistory"
      [] op = "deleteAppointment" -> "appointmentHistory"

DeletedMessage(op) ==
    CASE op = "deleteSavedPage" -> "Item deleted successfully"
      [] op = "deleteNews" -> "News deleted"
      [] op = "deleteAppointment" -> "Appointment deleted"

\* The entry with sub-id `id`, if there is one, is gone from user u's list
\* `name`, the others are in their order, and nothing else has changed.
Removed(u, name, id) ==
    LET old == users[u][name]
        new == users'[u][name]
        at == {k \in 1..Len(old) : old[k]._id = id}
    IN /\ IF at = {} THEN new = old
          ELSE \E k \in at :
                  new = SubSeq(old, 1, k - 1) \o SubSeq(old, k + 1, Len(old))
       /\ \A k \in 1..Len(new) : new[k]._id # id
       /\ \A other \in ListNames \ {name} : users'[u][other] = users[u][other]
       /\ \A i \in UserIds : i # u => users'[i] = users[i]

\* C8 as stated: a delete by an authenticated user always answers with the
\* success message; it removes exactly the entry with the given sub-id, the
\* others keeping their order; with no such entry it changes nothing; a
\* second delete of the same id changes nothing more.
C8_DeleteAsStated ==
    [][(last'.op \in DeleteOps /\ last'.message \notin GuardMessages) =>
          \A h \in SessionHeaders, id \in SubIdsIn :
              DeleteStep(h, id) =>
                  /\ last'.status = 200
                  /\ last'.message = DeletedMessage(last'.op)
                  /\ Removed(last'.uid, DeletedList(last'.op), id)]_vars

\* C8, amended: so it is for a path parameter that is an ObjectId string; for
\* any other string the delete is answered 500 and changes nothing.
C8_Delete ==
    [][(last'.op \in DeleteOps /\ last'.message \notin GuardMessages) =>
          \A h \in SessionHeaders, id \in SubIdsIn :
              DeleteStep(h, id) =>
                  IF id # 0
                  THEN /\ last'.status = 200
                       /\ last'.message = DeletedMessage(last'.op)
                       /\ Removed(last'.uid, DeletedList(last'.op), id)
                  ELSE /\ last'.status = 500
                       /\ users' = users]_vars

\* A delete has taken the middle one of three news entries.
C8_Witness ==
    /\ last.op = "deleteNews"
    /\ last.status = 200
    /\ SubIds(users[1].newsHistory) = {1, 3}

====
